---- MODULE Spec2Model ----
(***************************************************************************)
(* Family tree pipeline, as main runs it: TreeLoader._parse_tree_data      *)
(* builds Person objects from a nested record, validate_tree_data lists    *)
(* its flaws, and then either analyze_tree_structure counts it or          *)
(* FamilyTreeRenderer.render_to_png draws it, with Graphviz or, when that  *)
(* is missing or raises, with MatplotlibTreeRenderer, which lays the       *)
(* levels of FamilyTree.get_generations out and draws connections and      *)
(* nodes.  Person objects live in a heap (people); a reference is an index *)
(* into it, so object identity is equality of references.  Python dicts    *)
(* are insertion-ordered association lists.                                *)
(***************************************************************************)
EXTENDS Integers, Sequences, FiniteSets, TLC

\* Bounds of the model.
MaxNodes == 5
MaxId == 4

\* Depth at which the interpreter stops a recursion (RecursionError): a call
\* made at this depth raises.  No acyclic tree of the bounds makes one (at
\* this depth every one of its people is on the recursion path).
RecursionLimit == MaxNodes

\* person_data.get('id') of a record without an id: None, a value that is no
\* id of 1..MaxId.
NoId == MaxId + 1

\* Layout constants of _calculate_layout.
YSpacing == 2
MinSpacing == 3
WidthBudget == 8

\* A name is the sequence of its characters.
Names == {<<"A", "d", "a">>}

\* The inputs whose names vary: at most MaxNamedNodes records, each with one
\* of VariedNames (the empty name, a name of whitespace only, a name with
\* whitespace around it).
MaxNamedNodes == MaxNodes - 2
VariedNames == {<< >>, <<" ", "\t">>, <<" ", "A", " ">>}

VARIABLES
    data,            \* the nested record given to _parse_tree_data
    pc,              \* position of the program
    people,          \* heap of Person objects
    people_cache,    \* dict id -> Person
    pstack,          \* active parse_person calls
    tree,            \* the FamilyTree returned by the loader
    generations,     \* dict level -> list of Person (get_generations)
    gstack,          \* active assign_generation calls
    visit_log,       \* the assign_generation calls made, in order
    node_positions,  \* dict id -> (x, y)
    lay_i,           \* next entry of generations.items() in _calculate_layout
    x_positions,     \* x_positions of the level laid out last
    lay_level,       \* the level laid out last
    connections,     \* lines drawn by _draw_connections: <<parent id, child id>>
    drawn_nodes,     \* ids passed to _draw_person_node, in order
    issues,          \* the list validate_tree_data returned
    analysis,        \* the dict analyze_tree_structure returned
    gen_caller,      \* the caller of the running get_generations
    flags,           \* renderer.py: the module's import flags read so far
    attempts,        \* the backends render_to_png called, in order
    raised,          \* the exceptions the backends raised: <<backend, exception>>
    gv_generations,  \* the map get_generations returned to _create_graphviz_tree
    gv_nodes,        \* ids passed to _add_person_node, in order
    gv_edges         \* dot.edge calls: <<parent id, child id>>

\* The variables of main and of FamilyTreeRenderer.
mainVars == <<issues, analysis>>
backendVars == <<flags, attempts, raised>>
graphvizVars == <<gv_generations, gv_nodes, gv_edges>>

vars == <<data, pc, people, people_cache, pstack, tree, generations, gstack,
          visit_log, node_positions, lay_i, x_positions, lay_level,
          connections, drawn_nodes, issues, analysis, gen_caller,
          flags, attempts, raised, gv_generations, gv_nodes, gv_edges>>

-----------------------------------------------------------------------------
\* Python dict: insertion-ordered, unique keys.

DictHas(d, k) ==
    \E i \in 1..Len(d) : d[i].k = k

DictIndex(d, k) ==
    CHOOSE i \in 1..Len(d) : d[i].k = k

DictGet(d, k) ==
    d[DictIndex(d, k)].v

DictSet(d, k, v) ==
    IF DictHas(d, k)
    THEN [d EXCEPT ![DictIndex(d, k)].v = v]
    ELSE Append(d, [k |-> k, v |-> v])

DictKeys(d) ==
    [i \in 1..Len(d) |-> d[i].k]

DictValues(d) ==
    [i \in 1..Len(d) |-> d[i].v]

SeqToSet(s) ==
    {s[i] : i \in 1..Len(s)}

-----------------------------------------------------------------------------
\* Input records: the nested records of at most MaxNodes records in all.
\* The program only compares ids for equality, so one record stands for all
\* that differ from it by a renaming of the ids: the ids 1..MaxId are numbered
\* in the order of their first appearance in the input, read depth first.  A
\* record without an id may stand anywhere.

MaxOf(S) ==
    CHOOSE m \in S : \A n \in S : n <= m

\* The ids a record may carry when the ids 1..used have been met before it.
NextIds(used) ==
    {NoId} \cup { v \in 1..MaxId : v <= used + 1 }

\* The number of ids met once a record of id v has been.
UsedWith(used, v) ==
    IF v = NoId THEN used ELSE MaxOf({used, v})

RECURSIVE RecordsOfSize(_, _, _)
RECURSIVE ParentLists(_, _, _)

\* <<record, used'>>: the records of n records in all, met when the ids
\* 1..used have been met; used' counts the ids met after it.
RecordsOfSize(n, used, names) ==
    UNION { { <<[id |-> v, name |-> nm, parents |-> fu[1]], fu[2]>> :
                nm \in names,
                fu \in ParentLists(n - 1, UsedWith(used, v), names) } :
            v \in NextIds(used) }

\* <<list of records, used'>>: the lists of n records in all.
ParentLists(n, used, names) ==
    IF n = 0 THEN { << << >>, used >> }
    ELSE UNION { UNION { { << <<ru[1]>> \o fu[1], fu[2] >> :
                             fu \in ParentLists(n - k, ru[2], names) } :
                         ru \in RecordsOfSize(k, used, names) } :
                 k \in 1..n }

\* d is an input record: one of RecordsOfSize(n, 0, names) for an n in
\* 1..maxn, drawn part by part (its id, its first parent, its other parents).
IsInputRecord(d, maxn, names) ==
    \E n \in 1..maxn : \E v \in NextIds(0) : \E nm \in names :
        \/ /\ n = 1
           /\ d = [id |-> v, name |-> nm, parents |-> << >>]
        \/ \E k \in 1..(n - 1) :
             \E ru \in RecordsOfSize(k, UsedWith(0, v), names) :
               \E fu \in ParentLists(n - 1 - k, ru[2], names) :
                 d = [id |-> v, name |-> nm, parents |-> <<ru[1]>> \o fu[1]]

-----------------------------------------------------------------------------
\* models.py

NewPerson(rec) ==
    [id |-> rec.id, name |-> rec.name, parents |-> << >>]

\* Person.__eq__: two persons are equal when their ids are.
PersonEq(heap, p, q) ==
    heap[p].id = heap[q].id

\* `person in lst` for a list of Person references.
PersonIn(heap, p, lst) ==
    \E i \in 1..Len(lst) : PersonEq(heap, lst[i], p)

\* An add_parent that keeps the first parent only.
AddParentOnlyFirst(heap, p, parent) ==
    IF Len(heap[p].parents) > 0
    THEN heap
    ELSE [heap EXCEPT ![p].parents = Append(@, parent)]

AddParent(heap, p, parent) ==
    IF PersonIn(heap, parent, heap[p].parents)
    THEN heap
    ELSE [heap EXCEPT ![p].parents = Append(@, parent)]

NoTree == [root |-> 0, last_id |-> 0, all_people |-> << >>]

\* FamilyTree(root=..., last_id=..., all_people=people_cache): the loader
\* always passes a dict, so __post_init__ keeps it.
FamilyTree(root, last_id, all_people) ==
    [root |-> root, last_id |-> last_id, all_people |-> all_people]

GetAllPeople(t) ==
    DictValues(t.all_people)

\* self.all_people.get(person_id): the person, or None (0, no reference).
GetPersonById(t, person_id) ==
    IF DictHas(t.all_people, person_id)
    THEN DictGet(t.all_people, person_id)
    ELSE 0

-----------------------------------------------------------------------------
\* utils/helpers.py

\* str.strip(): the name without its leading and trailing whitespace.
Whitespace == {" ", "\t", "\n"}

RECURSIVE LStrip(_)
LStrip(s) ==
    IF s # << >> /\ Head(s) \in Whitespace THEN LStrip(Tail(s)) ELSE s

RECURSIVE RStrip(_)
RStrip(s) ==
    IF s # << >> /\ s[Len(s)] \in Whitespace
    THEN RStrip(SubSeq(s, 1, Len(s) - 1))
    ELSE s

Strip(s) ==
    RStrip(LStrip(s))

\* [p for p in people if not p.name]: the test of the name without strip().
RECURSIVE UnnamedAsWritten(_, _, _)
UnnamedAsWritten(heap, all, i) ==
    IF i > Len(all) THEN << >>
    ELSE (IF heap[all[i]].name = << >> THEN <<all[i]>> ELSE << >>)
         \o UnnamedAsWritten(heap, all, i + 1)

\* [p for p in tree.get_all_people() if not p.name.strip()]
RECURSIVE UnnamedPeople(_, _, _)
UnnamedPeople(heap, all, i) ==
    IF i > Len(all) THEN << >>
    ELSE (IF Strip(heap[all[i]].name) = << >> THEN <<all[i]>> ELSE << >>)
         \o UnnamedPeople(heap, all, i + 1)

\* set([x for x in ids if ids.count(x) > 1])
Duplicates(ids) ==
    {ids[i] : i \in {j \in 1..Len(ids) :
                       Cardinality({k \in 1..Len(ids) : ids[k] = ids[j]}) > 1}}

\* The issues of the loop `for person in tree.get_all_people()`: one for
\* each person that is in its own parents list.
RECURSIVE OwnParentIssues(_, _, _)
OwnParentIssues(heap, all, i) ==
    IF i > Len(all) THEN << >>
    ELSE (IF PersonIn(heap, all[i], heap[all[i]].parents)
          THEN <<[kind |-> "own_parent", about |-> all[i]]>>
          ELSE << >>)
         \o OwnParentIssues(heap, all, i + 1)

\* A validate_tree_data that tests the name as it is, without strip().
ValidateWithoutStrip(t, heap) ==
    LET all == GetAllPeople(t)
        unnamed_people == UnnamedAsWritten(heap, all, 1)
        ids == [i \in 1..Len(all) |-> heap[all[i]].id]
        duplicates == Duplicates(ids)
    IN (IF unnamed_people # << >>
        THEN <<[kind |-> "unnamed", about |-> Len(unnamed_people)]>>
        ELSE << >>)
       \o (IF duplicates # {}
           THEN <<[kind |-> "duplicates", about |-> duplicates]>>
           ELSE << >>)
       \o OwnParentIssues(heap, all, 1)

\* validate_tree_data(tree): the issues, in order: one for the people without
\* a name, one for the duplicate ids, one for each person that is in its own
\* parents list.
ValidateTreeData(t, heap) ==
    LET all == GetAllPeople(t)
        unnamed_people == UnnamedPeople(heap, all, 1)
        ids == [i \in 1..Len(all) |-> heap[all[i]].id]
        duplicates == Duplicates(ids)
    IN (IF unnamed_people # << >>
        THEN <<[kind |-> "unnamed", about |-> Len(unnamed_people)]>>
        ELSE << >>)
       \o (IF duplicates # {}
           THEN <<[kind |-> "duplicates", about |-> duplicates]>>
           ELSE << >>)
       \o OwnParentIssues(heap, all, 1)

\* analyze_tree_structure(tree), given the map get_generations returned to
\* it: the counts of people and of generations, the longest parents list, and
\* the number of people of every level.  (Photos and birth years are not part
\* of the model.)
AnalyzeTreeStructure(t, heap, gens) ==
    LET all == GetAllPeople(t)
    IN [total_people |-> Len(all),
        total_generations |-> Len(gens),
        max_children |-> IF all # << >>
                         THEN MaxOf({Len(heap[all[i]].parents) : i \in 1..Len(all)})
                         ELSE 0,
        generation_count |-> [i \in 1..Len(gens) |->
                                [k |-> gens[i].k, v |-> Len(gens[i].v)]]]

-----------------------------------------------------------------------------
\* The program starts: main has read the JSON file into data.
Start(maxn, names) ==
    /\ IsInputRecord(data, maxn, names)
    /\ flags = << >>
    /\ issues = << >>
    /\ analysis = << >>
    /\ gen_caller = "none"
    /\ attempts = << >>
    /\ raised = << >>
    /\ gv_generations = << >>
    /\ gv_nodes = << >>
    /\ gv_edges = << >>
    /\ pc = "start"
    /\ people = << >>
    /\ people_cache = << >>
    /\ pstack = << >>
    /\ tree = NoTree
    /\ generations = << >>
    /\ gstack = << >>
    /\ visit_log = << >>
    /\ node_positions = << >>
    /\ lay_i = 1
    /\ x_positions = << >>
    /\ lay_level = 0
    /\ connections = << >>
    /\ drawn_nodes = << >>

Init ==
    Start(MaxNodes, Names)

\* The start with names that vary.
InitNames ==
    Start(MaxNamedNodes, VariedNames)

\* A loader that never consults its cache.
CacheNeverHit(rec) ==
    FALSE

\* `if person_id in people_cache`: a cached person is returned at once;
\* otherwise a Person is built and cached before its parents are parsed.
CacheHit(rec) ==
    DictHas(people_cache, rec.id)

\* root_person = parse_person(data)
LoadStart ==
    /\ pc = "start"
    /\ ~CacheHit(data)
    /\ people' = Append(people, NewPerson(data))
    /\ people_cache' = DictSet(people_cache, data.id, Len(people) + 1)
    /\ pstack' = <<[rec |-> data, person |-> Len(people) + 1, i |-> 1]>>
    /\ pc' = "parsing"
    /\ UNCHANGED <<data, tree, generations, gstack, visit_log, node_positions,
                   lay_i, x_positions, lay_level, connections, drawn_nodes,
                   mainVars, gen_caller, backendVars, graphvizVars>>

\* A loader that takes the name of a cached person from the record met last.
ParseCachedOverwriting ==
    /\ pc = "parsing"
    /\ LET top == pstack[Len(pstack)]
           cached == DictGet(people_cache, top.rec.parents[top.i].id)
       IN /\ top.i <= Len(top.rec.parents)
          /\ CacheHit(top.rec.parents[top.i])
          /\ people' = AddParent([people EXCEPT ![cached].name =
                                                 top.rec.parents[top.i].name],
                                 top.person, cached)
          /\ pstack' = [pstack EXCEPT ![Len(pstack)].i = @ + 1]
    /\ UNCHANGED <<data, pc, people_cache, tree, generations, gstack, visit_log,
                   node_positions, lay_i, x_positions, lay_level, connections,
                   drawn_nodes, mainVars, gen_caller, backendVars,
                   graphvizVars>>

\* One iteration of `for parent_data in parents_data` whose call returns the
\* cached person: parent = people_cache[id]; person.add_parent(parent).
ParseCached ==
    /\ pc = "parsing"
    /\ LET top == pstack[Len(pstack)]
       IN /\ top.i <= Len(top.rec.parents)
          /\ CacheHit(top.rec.parents[top.i])
          /\ people' = AddParent(people, top.person,
                                 DictGet(people_cache, top.rec.parents[top.i].id))
          /\ pstack' = [pstack EXCEPT ![Len(pstack)].i = @ + 1]
    /\ UNCHANGED <<data, pc, people_cache, tree, generations, gstack, visit_log,
                   node_positions, lay_i, x_positions, lay_level, connections,
                   drawn_nodes,
                   mainVars, gen_caller, backendVars, graphvizVars>>

\* One iteration whose call builds a new Person: it is cached, and the call
\* goes on into the record's own parents.
ParseNew ==
    /\ pc = "parsing"
    /\ LET top == pstack[Len(pstack)]
       IN /\ top.i <= Len(top.rec.parents)
          /\ ~CacheHit(top.rec.parents[top.i])
          /\ people' = Append(people, NewPerson(top.rec.parents[top.i]))
          /\ people_cache' = DictSet(people_cache, top.rec.parents[top.i].id,
                                     Len(people) + 1)
          /\ pstack' = Append(pstack, [rec |-> top.rec.parents[top.i],
                                       person |-> Len(people) + 1, i |-> 1])
    /\ UNCHANGED <<data, pc, tree, generations, gstack, visit_log,
                   node_positions, lay_i, x_positions, lay_level, connections,
                   drawn_nodes,
                   mainVars, gen_caller, backendVars, graphvizVars>>

\* `return person` to the loop of the calling parse_person, which adds the
\* returned person to its own.
ParseReturn ==
    /\ pc = "parsing"
    /\ Len(pstack) > 1
    /\ LET top == pstack[Len(pstack)]
           caller == pstack[Len(pstack) - 1]
       IN /\ top.i > Len(top.rec.parents)
          /\ people' = AddParent(people, caller.person, top.person)
          /\ pstack' = [SubSeq(pstack, 1, Len(pstack) - 1)
                          EXCEPT ![Len(pstack) - 1].i = @ + 1]
    /\ UNCHANGED <<data, pc, people_cache, tree, generations, gstack, visit_log,
                   node_positions, lay_i, x_positions, lay_level, connections,
                   drawn_nodes,
                   mainVars, gen_caller, backendVars, graphvizVars>>

\* The root call returns: the FamilyTree is built over the parse cache.
LoadReturn ==
    /\ pc = "parsing"
    /\ Len(pstack) = 1
    /\ pstack[1].i > Len(pstack[1].rec.parents)
    /\ tree' = FamilyTree(pstack[1].person, 0, people_cache)
    /\ pstack' = << >>
    /\ pc' = "loaded"
    /\ UNCHANGED <<data, people, people_cache, generations, gstack, visit_log,
                   node_positions, lay_i, x_positions, lay_level, connections,
                   drawn_nodes,
                   mainVars, gen_caller, backendVars, graphvizVars>>

-----------------------------------------------------------------------------
\* main.py

\* A validator that takes a person out of its own parents list instead of
\* reporting it.
RECURSIVE Others(_, _, _, _)
Others(heap, lst, p, i) ==
    IF i > Len(lst) THEN << >>
    ELSE (IF PersonEq(heap, lst[i], p) THEN << >> ELSE <<lst[i]>>)
         \o Others(heap, lst, p, i + 1)

RECURSIVE WithoutOwn(_, _)
WithoutOwn(heap, p) ==
    IF p > Len(heap) THEN heap
    ELSE WithoutOwn([heap EXCEPT ![p].parents = Others(heap, @, p, 1)], p + 1)

ValidateRepairing ==
    /\ pc = "loaded"
    /\ issues' = << >>
    /\ people' = WithoutOwn(people, 1)
    /\ pc' = "validated"
    /\ UNCHANGED <<data, people_cache, pstack, tree, generations, gstack,
                   visit_log, node_positions, lay_i, x_positions, lay_level,
                   connections, drawn_nodes, analysis, gen_caller, backendVars,
                   graphvizVars>>

\* issues = validate_tree_data(tree)
Validate ==
    /\ pc = "loaded"
    /\ issues' = ValidateTreeData(tree, people)
    /\ pc' = "validated"
    /\ UNCHANGED <<data, people, people_cache, pstack, tree, generations,
                   gstack, visit_log, node_positions, lay_i, x_positions,
                   lay_level, connections, drawn_nodes, analysis, gen_caller,
                   backendVars, graphvizVars>>

\* analysis = analyze_tree_structure(tree), once its get_generations call has
\* returned; main returns 0.
Analyze ==
    /\ pc = "analyzing"
    /\ analysis' = AnalyzeTreeStructure(tree, people, generations)
    /\ pc' = "analyzed"
    /\ UNCHANGED <<data, people, people_cache, pstack, tree, generations,
                   gstack, visit_log, node_positions, lay_i, x_positions,
                   lay_level, connections, drawn_nodes, issues, gen_caller,
                   backendVars, graphvizVars>>

-----------------------------------------------------------------------------
\* FamilyTreeRenderer.render_to_png

\* Whether the imports at the head of renderer.py succeeded is a fact of the
\* installation, fixed before main runs and never written afterwards; flags
\* holds each of the two once render_to_png has read it, and its value is
\* drawn at that first read.
GRAPHVIZ_AVAILABLE ==
    DictGet(flags, "GRAPHVIZ_AVAILABLE")

MATPLOTLIB_AVAILABLE ==
    DictGet(flags, "MATPLOTLIB_AVAILABLE")

\* The try block: the Graphviz backend when it is available, else the
\* matplotlib backend.
RenderToPng ==
    /\ pc = "validated"
    /\ \E available \in BOOLEAN :
         /\ flags' = DictSet(flags, "GRAPHVIZ_AVAILABLE", available)
         /\ IF available
            THEN /\ attempts' = Append(attempts, "graphviz")
                 /\ pc' = "graphviz"
            ELSE /\ attempts' = Append(attempts, "matplotlib")
                 /\ pc' = "render_with_matplotlib"
    /\ UNCHANGED <<data, people, people_cache, pstack, tree, generations,
                   gstack, visit_log, node_positions, lay_i, x_positions,
                   lay_level, connections, drawn_nodes, mainVars, gen_caller,
                   raised,
                   graphvizVars>>

\* Where an exception of the matplotlib backend goes: raised in the try block
\* (Graphviz unavailable) it reaches the except clause; raised in the except
\* clause (the fallback) it leaves render_to_png.
MatplotlibRaises(exception) ==
    IF GRAPHVIZ_AVAILABLE THEN exception ELSE "raised_in_try"

\* An except clause that raises again whatever it caught.
RenderExceptReraising ==
    /\ pc = "raised_in_try"
    /\ pc' = raised[Len(raised)][2]
    /\ UNCHANGED <<data, people, people_cache, pstack, tree, generations,
                   gstack, visit_log, node_positions, lay_i, x_positions,
                   lay_level, connections, drawn_nodes, mainVars, gen_caller,
                   backendVars, graphvizVars>>

\* `except Exception as e`: the matplotlib backend is called when Graphviz is
\* available (it is Graphviz that raised), else e is raised again.
RenderExcept ==
    /\ pc = "raised_in_try"
    /\ IF GRAPHVIZ_AVAILABLE
       THEN /\ attempts' = Append(attempts, "matplotlib")
            /\ pc' = "render_with_matplotlib"
       ELSE /\ attempts' = attempts
            /\ pc' = raised[Len(raised)][2]
    /\ UNCHANGED <<data, people, people_cache, pstack, tree, generations,
                   gstack, visit_log, node_positions, lay_i, x_positions,
                   lay_level, connections, drawn_nodes, mainVars, gen_caller,
                   flags, raised,
                   graphvizVars>>

\* _render_with_matplotlib: ImportError when the matplotlib renderer could
\* not be imported; else MatplotlibTreeRenderer(self.tree), whose
\* node_positions start empty, and its render_to_png.
RenderWithMatplotlib ==
    /\ pc = "render_with_matplotlib"
    /\ \E available \in BOOLEAN :
         /\ flags' = DictSet(flags, "MATPLOTLIB_AVAILABLE", available)
         /\ IF available
            THEN /\ node_positions' = << >>
                 /\ raised' = raised
                 /\ pc' = "matplotlib"
            ELSE /\ node_positions' = node_positions
                 /\ raised' = Append(raised, <<"matplotlib", "ImportError">>)
                 /\ pc' = MatplotlibRaises("ImportError")
    /\ UNCHANGED <<data, people, people_cache, pstack, tree, generations,
                   gstack, visit_log, lay_i, x_positions, lay_level,
                   connections, drawn_nodes, mainVars, gen_caller,
                   attempts,
                   graphvizVars>>

-----------------------------------------------------------------------------
\* FamilyTree.get_generations

\* An assign_generation that lists a person at the first level it is met at
\* and nowhere else.
AssignGenerationFirstWins(gens, heap, person, level) ==
    LET g1 == IF DictHas(gens, level) THEN gens ELSE DictSet(gens, level, << >>)
    IN IF \E i \in 1..Len(g1) : PersonIn(heap, person, g1[i].v)
       THEN g1
       ELSE DictSet(g1, level, Append(DictGet(g1, level), person))

\* The first statements of assign_generation(person, level): the level's list
\* is created when missing, and the person appended unless the list already
\* holds it.
AssignGeneration(gens, heap, person, level) ==
    LET g1 == IF DictHas(gens, level) THEN gens ELSE DictSet(gens, level, << >>)
    IN IF PersonIn(heap, person, DictGet(g1, level))
       THEN g1
       ELSE DictSet(g1, level, Append(DictGet(g1, level), person))

\* Parents left at the level of their child.
ParentLevelSame(level) ==
    level

\* "Parents are one generation up": assign_generation(parent, level + 1).
ParentLevel(level) ==
    level + 1

\* The callers of get_generations and where each calls it from:
\* analyze_tree_structure (main, when the analysis is asked for),
\* _create_graphviz_tree and _calculate_layout.
Callers == {"analyze", "graphviz", "matplotlib"}

CallsFrom(c) ==
    CASE c = "analyze" -> "validated"
      [] c = "graphviz" -> "graphviz"
      [] c = "matplotlib" -> "matplotlib"

\* A get_generations that keeps its map from call to call and numbers the
\* levels on from the levels the map holds.
GenStartResuming ==
    /\ \E c \in Callers : pc = CallsFrom(c) /\ gen_caller' = c
    /\ generations' = AssignGeneration(generations, people, tree.root,
                                       Len(generations))
    /\ gstack' = <<[person |-> tree.root, level |-> Len(generations), i |-> 1]>>
    /\ visit_log' = <<[person |-> tree.root, level |-> Len(generations)]>>
    /\ pc' = "generations"
    /\ UNCHANGED <<data, people, people_cache, pstack, tree, node_positions,
                   lay_i, x_positions, lay_level, connections, drawn_nodes,
                   mainVars, backendVars, graphvizVars>>

\* generations = self.tree.get_generations(): generations = {} and
\* assign_generation(self.root, 0).
GenStart ==
    /\ \E c \in Callers : pc = CallsFrom(c) /\ gen_caller' = c
    /\ generations' = AssignGeneration(<< >>, people, tree.root, 0)
    /\ gstack' = <<[person |-> tree.root, level |-> 0, i |-> 1]>>
    /\ visit_log' = <<[person |-> tree.root, level |-> 0]>>
    /\ pc' = "generations"
    /\ UNCHANGED <<data, people, people_cache, pstack, tree, node_positions,
                   lay_i, x_positions, lay_level, connections, drawn_nodes,
                   mainVars, backendVars, graphvizVars>>

\* One iteration of `for parent in person.parents`:
\* assign_generation(parent, level + 1).
GenCall ==
    /\ pc = "generations"
    /\ Len(gstack) < RecursionLimit
    /\ LET top == gstack[Len(gstack)]
           parent == people[top.person].parents[top.i]
       IN /\ top.i <= Len(people[top.person].parents)
          /\ generations' = AssignGeneration(generations, people, parent,
                                             ParentLevel(top.level))
          /\ gstack' = Append([gstack EXCEPT ![Len(gstack)].i = @ + 1],
                              [person |-> parent,
                               level |-> ParentLevel(top.level), i |-> 1])
          /\ visit_log' = Append(visit_log,
                                 [person |-> parent,
                                  level |-> ParentLevel(top.level)])
    /\ UNCHANGED <<data, pc, people, people_cache, pstack, tree, node_positions,
                   lay_i, x_positions, lay_level, connections, drawn_nodes,
                   mainVars, gen_caller, backendVars, graphvizVars>>

\* The call that would exceed the interpreter's recursion limit raises
\* RecursionError, which nothing in get_generations catches: it leaves main
\* from analyze_tree_structure, reaches the except clause of render_to_png
\* from the Graphviz backend, and goes the way of the matplotlib backend's
\* exceptions from _calculate_layout.
GenOverflow ==
    /\ pc = "generations"
    /\ Len(gstack) >= RecursionLimit
    /\ gstack[Len(gstack)].i <= Len(people[gstack[Len(gstack)].person].parents)
    /\ raised' = IF gen_caller = "analyze" THEN raised
                 ELSE Append(raised, <<gen_caller, "RecursionError">>)
    /\ pc' = CASE gen_caller = "analyze" -> "RecursionError"
               [] gen_caller = "graphviz" -> "raised_in_try"
               [] gen_caller = "matplotlib" -> MatplotlibRaises("RecursionError")
    /\ UNCHANGED <<data, people, people_cache, pstack, tree, generations,
                   gstack, visit_log, node_positions, lay_i, x_positions,
                   lay_level, connections, drawn_nodes, mainVars, gen_caller,
                   flags, attempts,
                   graphvizVars>>

\* The loop of an assign_generation call is over: it returns to its caller.
GenReturn ==
    /\ pc = "generations"
    /\ Len(gstack) > 1
    /\ gstack[Len(gstack)].i > Len(people[gstack[Len(gstack)].person].parents)
    /\ gstack' = SubSeq(gstack, 1, Len(gstack) - 1)
    /\ UNCHANGED <<data, pc, people, people_cache, pstack, tree, generations,
                   visit_log, node_positions, lay_i, x_positions, lay_level,
                   connections, drawn_nodes,
                   mainVars, gen_caller, backendVars, graphvizVars>>

\* assign_generation(self.root, 0) returns: `return generations`, to the
\* caller (_create_graphviz_tree keeps the map in its own generations).
GenDone ==
    /\ pc = "generations"
    /\ Len(gstack) = 1
    /\ gstack[1].i > Len(people[gstack[1].person].parents)
    /\ gstack' = << >>
    /\ gv_generations' = IF gen_caller = "graphviz" THEN generations
                         ELSE gv_generations
    /\ pc' = CASE gen_caller = "analyze" -> "analyzing"
               [] gen_caller = "graphviz" -> "graphviz_tree"
               [] gen_caller = "matplotlib" -> "layout"
    /\ UNCHANGED <<data, people, people_cache, pstack, tree, generations,
                   visit_log, node_positions, lay_i, x_positions, lay_level,
                   connections, drawn_nodes, mainVars, gen_caller, backendVars,
                   gv_nodes, gv_edges>>

-----------------------------------------------------------------------------
\* FamilyTreeRenderer._render_with_graphviz

\* The nodes of _create_graphviz_tree: _add_person_node for every person of
\* every level of the map, in order.
RECURSIVE GraphvizNodes(_, _, _)
GraphvizNodes(heap, gens, i) ==
    IF i > Len(gens) THEN << >>
    ELSE [j \in 1..Len(gens[i].v) |-> heap[gens[i].v[j]].id]
         \o GraphvizNodes(heap, gens, i + 1)

\* Its edges: dot.edge(str(parent.id), str(person.id)) for every parent of
\* every person of get_all_people().
RECURSIVE GraphvizEdges(_, _, _)
GraphvizEdges(heap, all, i) ==
    IF i > Len(all) THEN << >>
    ELSE [j \in 1..Len(heap[all[i]].parents) |->
            <<heap[heap[all[i]].parents[j]].id, heap[all[i]].id>>]
         \o GraphvizEdges(heap, all, i + 1)

\* The rest of _render_with_graphviz, once get_generations has returned: the
\* graph is built, then dot.render and the image steps run outside the
\* program (the dot executable, the file system) and either succeed or raise.
GraphvizRender ==
    /\ pc = "graphviz_tree"
    /\ gv_nodes' = GraphvizNodes(people, gv_generations, 1)
    /\ gv_edges' = GraphvizEdges(people, GetAllPeople(tree), 1)
    /\ \E ok \in BOOLEAN :
         IF ok
         THEN /\ raised' = raised
              /\ pc' = "graphviz_done"
         ELSE /\ raised' = Append(raised, <<"graphviz", "RenderError">>)
              /\ pc' = "raised_in_try"
    /\ UNCHANGED <<data, people, people_cache, pstack, tree, generations,
                   gstack, visit_log, node_positions, lay_i, x_positions,
                   lay_level, connections, drawn_nodes, mainVars, gen_caller,
                   flags, attempts,
                   gv_generations>>

-----------------------------------------------------------------------------
\* MatplotlibTreeRenderer.  An x coordinate is a fraction <<numerator,
\* denominator>> in lowest terms with a positive denominator; a y coordinate
\* is an integer (every y is a product of integers and y_spacing).

RECURSIVE Gcd(_, _)
Gcd(a, b) ==
    IF b = 0 THEN a ELSE Gcd(b, a % b)

Abs(n) ==
    IF n < 0 THEN -n ELSE n

Frac(n, d) ==
    LET g == Gcd(Abs(n), d) IN <<n \div g, d \div g>>

\* min instead of max.
XSpacingMin(count) ==
    IF WidthBudget > MinSpacing * count
    THEN Frac(MinSpacing, 1)
    ELSE Frac(WidthBudget, count)

\* x_spacing = max(3.0, 8.0 / count)
XSpacing(count) ==
    IF WidthBudget > MinSpacing * count
    THEN Frac(WidthBudget, count)
    ELSE Frac(MinSpacing, 1)

\* x_positions: [0] for one person, else
\* [(i - (count - 1) / 2) * x_spacing for i in range(count)]
XPositions(count) ==
    IF count = 1
    THEN <<Frac(0, 1)>>
    ELSE [k \in 1..count |->
            Frac((2 * (k - 1) - (count - 1)) * XSpacing(count)[1],
                 2 * XSpacing(count)[2])]

\* y = max_generation * y_spacing - level * y_spacing
LevelY(max_generation, level) ==
    max_generation * YSpacing - level * YSpacing

\* for i, person in enumerate(people):
\*     self.node_positions[person.id] = (x_positions[i], y)
RECURSIVE AssignPositions(_, _, _, _, _, _)

\* A loop that leaves a person the position it already has.
RECURSIVE AssignPositionsKeepFirst(_, _, _, _, _, _)
AssignPositionsKeepFirst(np, heap, lst, xs, y, i) ==
    IF i > Len(lst) THEN np
    ELSE AssignPositionsKeepFirst(
             IF DictHas(np, heap[lst[i]].id) THEN np
             ELSE DictSet(np, heap[lst[i]].id, [x |-> xs[i], y |-> y]),
             heap, lst, xs, y, i + 1)

\* A loop that stops one short on a level of several people.
RECURSIVE AssignPositionsButLast(_, _, _, _, _, _)
AssignPositionsButLast(np, heap, lst, xs, y, i) ==
    IF i >= Len(lst) /\ Len(lst) > 1 THEN np
    ELSE IF i > Len(lst) THEN np
    ELSE AssignPositionsButLast(DictSet(np, heap[lst[i]].id,
                                        [x |-> xs[i], y |-> y]),
                                heap, lst, xs, y, i + 1)

AssignPositions(np, heap, lst, xs, y, i) ==
    IF i > Len(lst) THEN np
    ELSE AssignPositions(DictSet(np, heap[lst[i]].id, [x |-> xs[i], y |-> y]),
                         heap, lst, xs, y, i + 1)

\* One iteration of `for level, people in generations.items()`.
LayoutLevel ==
    /\ pc = "layout"
    /\ lay_i <= Len(generations)
    /\ LET level == generations[lay_i].k
           lst == generations[lay_i].v
           max_generation == MaxOf(SeqToSet(DictKeys(generations)))
           xs == XPositions(Len(lst))
       IN /\ x_positions' = xs
          /\ lay_level' = level
          /\ node_positions' = AssignPositions(node_positions, people, lst, xs,
                                               LevelY(max_generation, level), 1)
    /\ lay_i' = lay_i + 1
    /\ UNCHANGED <<data, pc, people, people_cache, pstack, tree, generations,
                   gstack, visit_log, connections, drawn_nodes,
                   mainVars, gen_caller, backendVars, graphvizVars>>

\* A _draw_connections that draws the line to the first parent only.
ParentLinesFirstOnly(heap, np, child, i) ==
    IF i > 1 \/ i > Len(heap[child].parents) THEN << >>
    ELSE IF DictHas(np, heap[heap[child].parents[i]].id)
         THEN <<<<heap[heap[child].parents[i]].id, heap[child].id>>>>
         ELSE << >>

\* The lines _draw_connections plots, as <<parent id, child id>>, in order.
RECURSIVE ParentLines(_, _, _, _)
ParentLines(heap, np, child, i) ==
    IF i > Len(heap[child].parents) THEN << >>
    ELSE (IF DictHas(np, heap[heap[child].parents[i]].id)
          THEN <<<<heap[heap[child].parents[i]].id, heap[child].id>>>>
          ELSE << >>)
         \o ParentLines(heap, np, child, i + 1)

RECURSIVE ConnectionLines(_, _, _, _)
ConnectionLines(heap, np, all, i) ==
    IF i > Len(all) THEN << >>
    ELSE (IF DictHas(np, heap[all[i]].id)
          THEN ParentLines(heap, np, all[i], 1)
          ELSE << >>)
         \o ConnectionLines(heap, np, all, i + 1)

\* The layout loop is over; render_to_png goes on to _draw_connections.
DrawConnections ==
    /\ pc = "layout"
    /\ lay_i > Len(generations)
    /\ connections' = ConnectionLines(people, node_positions,
                                      GetAllPeople(tree), 1)
    /\ pc' = "connections"
    /\ UNCHANGED <<data, people, people_cache, pstack, tree, generations,
                   gstack, visit_log, node_positions, lay_i, x_positions,
                   lay_level, drawn_nodes,
                   mainVars, gen_caller, backendVars, graphvizVars>>

\* The ids _draw_nodes draws a node for, in order.
RECURSIVE NodesDrawn(_, _, _, _)
NodesDrawn(heap, np, all, i) ==
    IF i > Len(all) THEN << >>
    ELSE (IF DictHas(np, heap[all[i]].id) THEN <<heap[all[i]].id>> ELSE << >>)
         \o NodesDrawn(heap, np, all, i + 1)

DrawNodes ==
    /\ pc = "connections"
    /\ drawn_nodes' = NodesDrawn(people, node_positions, GetAllPeople(tree), 1)
    /\ pc' = "done"
    /\ UNCHANGED <<data, people, people_cache, pstack, tree, generations,
                   gstack, visit_log, node_positions, lay_i, x_positions,
                   lay_level, connections,
                   mainVars, gen_caller, backendVars, graphvizVars>>

Next ==
    \/ LoadStart
    \/ ParseCached
    \/ ParseNew
    \/ ParseReturn
    \/ LoadReturn
    \/ Validate
    \/ Analyze
    \/ RenderToPng
    \/ RenderExcept
    \/ RenderWithMatplotlib
    \/ GraphvizRender
    \/ GenStart
    \/ GenCall
    \/ GenOverflow
    \/ GenReturn
    \/ GenDone
    \/ LayoutLevel
    \/ DrawConnections
    \/ DrawNodes

Spec == Init /\ [][Next]_vars

\* The same program on the inputs whose names vary.
SpecNames == InitNames /\ [][Next]_vars

-----------------------------------------------------------------------------
\* Notions the properties below are stated with.

\* The records of a nested record in the order a depth-first parse meets
\* them (a record, then its parents in listed order).
RECURSIVE Preorder(_)
RECURSIVE PreorderList(_)
Preorder(rec) ==
    <<rec>> \o PreorderList(rec.parents)

PreorderList(f) ==
    IF f = << >> THEN << >> ELSE Preorder(Head(f)) \o PreorderList(Tail(f))

AllRecords ==
    SeqToSet(Preorder(data))

\* The records the parse builds a Person from: a record is passed over when
\* a record of its id was met before it, and then the records nested in it
\* are not met at all.  <<records built from, ids met>>.
RECURSIVE BuiltFrom(_, _)
RECURSIVE BuiltFromList(_, _)
BuiltFrom(rec, met) ==
    IF rec.id \in met THEN << << >>, met >>
    ELSE LET rest == BuiltFromList(rec.parents, met \cup {rec.id})
         IN << <<rec>> \o rest[1], rest[2] >>

BuiltFromList(f, met) ==
    IF f = << >> THEN << << >>, met >>
    ELSE LET a == BuiltFrom(Head(f), met)
             b == BuiltFromList(Tail(f), a[2])
         IN << a[1] \o b[1], b[2] >>

ParsedRecords ==
    SeqToSet(BuiltFrom(data, {})[1])

\* Some record of rec repeats the id of a record it is nested in, or an id
\* of the set above.
RECURSIVE NestsOwnId(_, _)
NestsOwnId(rec, above) ==
    \/ rec.id \in above
    \/ \E i \in 1..Len(rec.parents) :
         NestsOwnId(rec.parents[i], above \cup {rec.id})

EveryRecordHasId ==
    \A r \in AllRecords : r.id # NoId

\* Every record of the input has an id, and none repeats the id of a record
\* it is nested in.
PlainInput ==
    /\ EveryRecordHasId
    /\ ~NestsOwnId(data, {})

ParentIds(rec) ==
    {rec.parents[i].id : i \in 1..Len(rec.parents)}

Refs ==
    1..Len(people)

ParentRefs(p) ==
    SeqToSet(people[p].parents)

\* The persons reachable from the persons of S by parents links.
RECURSIVE Closure(_)
Closure(S) ==
    LET T == S \cup UNION {ParentRefs(p) : p \in S}
    IN IF T = S THEN S ELSE Closure(T)

\* The persons reachable from p by one or more parents links.
Ancestors(p) ==
    Closure(ParentRefs(p))

Loaded ==
    tree # NoTree

EntriesFor(d, k) ==
    {i \in 1..Len(d) : d[i].k = k}

\* The persons of ids c1 and c2 both hold, in their parents lists, one and
\* the same Person object of id x, and all_people has one entry for x.
SharesParent(c1, c2, x) ==
    /\ Cardinality(EntriesFor(tree.all_people, x)) = 1
    /\ \E o \in Refs :
         /\ people[o].id = x
         /\ \A c \in {c1, c2} :
              /\ Cardinality(EntriesFor(tree.all_people, c)) = 1
              /\ o \in ParentRefs(DictGet(tree.all_people, c))
              /\ \A q \in ParentRefs(DictGet(tree.all_people, c)) :
                   people[q].id = x => q = o

\* C1 as stated: whenever an id appears among the parents of two records of
\* different ids, anywhere in the input, the two persons' parents lists hold
\* the very same Person object for it and all_people has exactly one entry
\* for it.  Stated for the inputs in which every record has an id and none
\* nests a record of its own id, the claim's plainest case.
C1_SharedUnderAnyTwoChildren ==
    (Loaded /\ PlainInput) =>
      \A r1 \in AllRecords : \A r2 \in AllRecords :
        \A x \in ParentIds(r1) \cap ParentIds(r2) :
          r1.id # r2.id => SharesParent(r1.id, r2.id, x)

\* C1 amended: the same, for two records that a Person is built from (the
\* first record met for each id; a later record of the id is answered from
\* the cache and the parents nested in it are never parsed).  Stated of the
\* tree as the loader returns it; no later step changes the tree (C13).
C1_SharedUnderParsedChildren ==
    pc = "loaded" =>
      LET built == BuiltFrom(data, {})[1]
      IN \A i \in 1..Len(built) : \A j \in 1..Len(built) :
           built[i].id # built[j].id =>
             \A x \in ParentIds(built[i]) \cap ParentIds(built[j]) :
               SharesParent(built[i].id, built[j].id, x)

\* The load is over for an input in which two parsed records of different
\* ids, both below the root, nest a record of a third id.
C1_Witness ==
    /\ pc = "loaded"
    /\ \E r1 \in ParsedRecords : \E r2 \in ParsedRecords :
         /\ r1.id # r2.id /\ r1 # data /\ r2 # data
         /\ (ParentIds(r1) \cap ParentIds(r2)) \ {r1.id, r2.id, data.id} # {}

\* C2: the keys of all_people of the returned tree are exactly the ids of the
\* persons reachable from root by zero or more parents links.
C2_AllPeopleIsReachable ==
    Loaded =>
      SeqToSet(DictKeys(tree.all_people))
        = {people[p].id : p \in Closure({tree.root})}

\* A tree of three or more people is returned for an input holding a record
\* that was never parsed into a person of its own (a repeated id).
C2_Witness ==
    /\ pc = "loaded"
    /\ Len(tree.all_people) >= 3
    /\ Len(Preorder(data)) > Len(tree.all_people)

\* C3: a root record without an id makes the load fail with
\* MalformedDataError, and no FamilyTree is returned.
C3_MissingRootIdFails ==
    data.id = NoId =>
      /\ tree = NoTree
      /\ pc \in {"start", "parsing", "MalformedDataError"}

\* C4: the parents relation of the loaded tree is acyclic: no person is
\* reachable from itself by one or more parents links.  Stated for the inputs
\* in which every record has an id.
C4_LoadedTreeAcyclic ==
    (Loaded /\ EveryRecordHasId) => \A p \in Refs : p \notin Ancestors(p)

-----------------------------------------------------------------------------
\* get_generations has returned its map.
GenReturned ==
    pc \in {"layout", "connections", "done"}

\* The levels whose list holds person p.
LevelsListing(p) ==
    {generations[i].k : i \in {j \in 1..Len(generations) :
                                 p \in SeqToSet(generations[j].v)}}

TimesIn(p, lst) ==
    Cardinality({j \in 1..Len(lst) : lst[j] = p})

\* The level of the first assign_generation call made for p.
FirstVisitLevel(p) ==
    LET first == CHOOSE i \in 1..Len(visit_log) :
                    /\ visit_log[i].person = p
                    /\ \A j \in 1..(i - 1) : visit_log[j].person # p
    IN visit_log[first].level

\* The persons a chain of exactly n parents links leads to from root.
RECURSIVE AtDistance(_)
AtDistance(n) ==
    IF n = 0 THEN {tree.root}
    ELSE UNION {ParentRefs(p) : p \in AtDistance(n - 1)}

C6_ParentsOneLevelUp ==
    GenReturned =>
      /\ DictHas(generations, 0)
      /\ tree.root \in SeqToSet(DictGet(generations, 0))
      /\ \A i \in 1..Len(generations) :
           \A p \in SeqToSet(generations[i].v) :
             \A q \in ParentRefs(p) :
               /\ DictHas(generations, generations[i].k + 1)
               /\ q \in SeqToSet(DictGet(generations, generations[i].k + 1))

\* The map is returned for a tree of three levels or more in which some
\* person has two parents.
C6_Witness ==
    /\ GenReturned
    /\ Len(generations) >= 3
    /\ \E p \in Refs : Len(people[p].parents) >= 2

\* C7: get_generations never goes on into a person that is already on the
\* current recursion path (it stops with CyclicAncestryError there), so no
\* person is on the path twice and the recursion never runs into the
\* interpreter's limit.  Stated for the inputs in which every record has an id.
C7_RevisitOnPathIsFatal ==
    EveryRecordHasId =>
      /\ pc # "RecursionError"
      /\ \A i \in 1..Len(gstack) : \A j \in 1..Len(gstack) :
           i < j => ~PersonEq(people, gstack[i].person, gstack[j].person)

-----------------------------------------------------------------------------
\* _calculate_layout has returned.
LaidOut ==
    pc \in {"connections", "done"}

PositionOf(p) ==
    DictGet(node_positions, people[p].id)

\* C8: level 0 has the lowest y and every next level lies one y_spacing
\* higher, so a person whose position was written for level n lies n units
\* above the root; in a chain every x is 0.  Stated for the inputs in which
\* every record has an id.
C8_LevelsRiseFromRoot ==
    (LaidOut /\ EveryRecordHasId) =>
      /\ \A p \in SeqToSet(GetAllPeople(tree)) :
           PositionOf(p).y
             = PositionOf(tree.root).y + MaxOf(LevelsListing(p)) * YSpacing
      /\ (\A i \in 1..Len(generations) : Len(generations[i].v) = 1)
           => \A p \in SeqToSet(GetAllPeople(tree)) : PositionOf(p).x = <<0, 1>>

\* b - a for two fractions.
FracDiff(b, a) ==
    <<b[1] * a[2] - a[1] * b[2], b[2] * a[2]>>

\* A level has been laid out.
SomeLevelLaidOut ==
    pc \in {"layout", "connections", "done"} /\ lay_i > 1

\* C9: the x coordinates given to the N people of a level are symmetric
\* about 0 and strictly increase in the order of the level's list; for N > 1
\* neighbours are max(3, 8 / N) apart, for N = 1 the x is 0.  They are the
\* coordinates node_positions holds once the level is laid out.
C9_LevelSymmetricEvenlySpaced ==
    SomeLevelLaidOut =>
      LET lst == DictGet(generations, lay_level)
          N == Len(x_positions)
      IN /\ N = Len(lst)
         /\ N >= 1
         /\ \A j \in 1..N :
              /\ x_positions[j][2] > 0
              /\ x_positions[j][2] = x_positions[N + 1 - j][2]
              /\ x_positions[j][1] = -x_positions[N + 1 - j][1]
              /\ PositionOf(lst[j]).x = x_positions[j]
         /\ \A j \in 1..(N - 1) :
              LET gap == FracDiff(x_positions[j + 1], x_positions[j])
              IN /\ gap[1] > 0
                 /\ gap[1] >= MinSpacing * gap[2]
                 /\ gap[1] * N >= WidthBudget * gap[2]
                 /\ \/ gap[1] = MinSpacing * gap[2]
                    \/ gap[1] * N = WidthBudget * gap[2]
         /\ N = 1 => x_positions[1] = <<0, 1>>

\* A level of three people has been laid out.
C9_Witness ==
    /\ SomeLevelLaidOut
    /\ Len(x_positions) = 3
    /\ lay_level >= 1

\* C10: once the layout is computed, node_positions has a coordinate for
\* every id of all_people and for no other id, and _draw_nodes draws one node
\* for every person of all_people.
C10_EveryPersonPositioned ==
    /\ LaidOut =>
         /\ SeqToSet(DictKeys(node_positions))
              = SeqToSet(DictKeys(tree.all_people))
         /\ Len(node_positions) = Len(tree.all_people)
    /\ pc = "done" =>
         /\ SeqToSet(drawn_nodes) = SeqToSet(DictKeys(tree.all_people))
         /\ Len(drawn_nodes) = Len(tree.all_people)

\* The nodes are drawn for a tree of four or more people in which one person
\* is listed at two levels.
C10_Witness ==
    /\ pc = "done"
    /\ Len(tree.all_people) >= 4
    /\ \E p \in Refs : Cardinality(LevelsListing(p)) >= 2

-----------------------------------------------------------------------------
\* The parent links of the people of all_people, as <<parent id, child id>>.
ParentLinks ==
    UNION { { <<people[q].id, people[p].id>> : q \in ParentRefs(p) } :
            p \in SeqToSet(GetAllPeople(tree)) }

Positioned(id) ==
    DictHas(node_positions, id)

NoRepeats(lst) ==
    Len(lst) = Cardinality(SeqToSet(lst))

\* _draw_connections has run.
ConnectionsDrawn ==
    pc \in {"connections", "done"}

\* _create_graphviz_tree has built its graph.
GraphBuilt ==
    gv_nodes # << >>

\* C11: the renderer makes one parent-to-child connection for every parent
\* link of every person of all_people whose two ends both have a position, and
\* no other; no connection names an id outside the node set.  The matplotlib
\* renderer tests both ends; the Graphviz graph has an edge for every parent
\* link, and both ends of every edge are nodes of it.
C11_OneConnectionPerParentLink ==
    /\ ConnectionsDrawn =>
         /\ SeqToSet(connections)
              = {l \in ParentLinks : Positioned(l[1]) /\ Positioned(l[2])}
         /\ NoRepeats(connections)
    /\ GraphBuilt =>
         /\ SeqToSet(gv_edges) = ParentLinks
         /\ NoRepeats(gv_edges)
         /\ \A i \in 1..Len(gv_edges) :
              /\ gv_edges[i][1] \in SeqToSet(gv_nodes)
              /\ gv_edges[i][2] \in SeqToSet(gv_nodes)

\* Both backends have drawn a tree of three parent links or more in which
\* some person has two parents.
C11_Witness ==
    /\ pc = "done"
    /\ GraphBuilt
    /\ Len(connections) >= 3
    /\ Len(gv_edges) >= 3
    /\ \E p \in Refs : Len(people[p].parents) >= 2

-----------------------------------------------------------------------------
\* validate_tree_data has returned.
Validated ==
    pc \notin {"start", "parsing", "loaded"}

IssuesOf(kind) ==
    {i \in 1..Len(issues) : issues[i].kind = kind}

\* The name is empty or holds whitespace only.
Blank(name) ==
    \A j \in 1..Len(name) : name[j] \in Whitespace

-----------------------------------------------------------------------------
\* C13: once the loader has returned the FamilyTree, no step of the program
\* changes it: root, last_id and the all_people table stay as they are, and
\* so does every person (its fields, and its parents list in content and
\* order).
C13_TreeUnchangedOnceLoaded ==
    [][Loaded => /\ tree' = tree
                 /\ people' = people
                 /\ people_cache' = people_cache]_vars

\* The tree has been validated, given to the Graphviz backend, which raised,
\* and drawn by the matplotlib backend.
C13_Witness ==
    /\ pc = "done"
    /\ Len(raised) >= 1
    /\ Len(people) >= 3
    /\ \E p \in Refs : Len(people[p].parents) >= 2

-----------------------------------------------------------------------------
\* get_generations has returned to _calculate_layout after it had returned
\* to _create_graphviz_tree: it has run twice on the tree.
ReturnedTwice ==
    /\ GenReturned
    /\ gen_caller = "matplotlib"
    /\ gv_generations # << >>

\* C14: get_generations run twice on the same tree returns the same map: the
\* same levels in the same order and, at each level, the same people in the
\* same order.
C14_SecondCallSameMap ==
    ReturnedTwice => generations = gv_generations

\* It has run twice on a tree of three levels or more in which a person is
\* listed at two levels.
C14_Witness ==
    /\ ReturnedTwice
    /\ Len(generations) >= 3
    /\ \E p \in Refs : Cardinality(LevelsListing(p)) >= 2

-----------------------------------------------------------------------------
\* C15: one call of get_generations makes at most |all_people| calls of
\* assign_generation.  Stated for the inputs in which every record has an id
\* and none nests a record of its own id.
C15_VisitsBoundedByPeople ==
    (Loaded /\ PlainInput) => Len(visit_log) <= Len(tree.all_people)

-----------------------------------------------------------------------------
\* The ids of a list of records, each once, in the order of their first
\* appearance.
RECURSIVE FirstIds(_, _)
FirstIds(f, seen) ==
    IF f = << >> THEN << >>
    ELSE IF Head(f).id \in seen THEN FirstIds(Tail(f), seen)
    ELSE <<Head(f).id>> \o FirstIds(Tail(f), seen \cup {Head(f).id})

\* C16: the first record met for an id, depth first with parents in listed
\* order, fixes the person: all_people holds one person for each such record,
\* in this order, with that record's name and that record's parents (each id
\* once, in listed order).  A later record of the id changes nothing, and the
\* records nested in it are not parsed: a person met only there is not in
\* all_people.
C16_FirstRecordFixesPerson ==
    Loaded =>
      LET built == BuiltFrom(data, {})[1]
      IN /\ DictKeys(tree.all_people) = [i \in 1..Len(built) |-> built[i].id]
         /\ \A i \in 1..Len(built) :
              LET person == people[DictGet(tree.all_people, built[i].id)]
              IN /\ person.id = built[i].id
                 /\ person.name = built[i].name
                 /\ [j \in 1..Len(person.parents) |-> people[person.parents[j]].id]
                      = FirstIds(built[i].parents, {})

\* A tree is returned for an input in which a later record of an id has
\* another name than the first and nests a record whose id is met nowhere
\* else.
C16_Witness ==
    /\ pc = "loaded"
    /\ \E r \in AllRecords \ ParsedRecords :
         /\ \E b \in ParsedRecords : b.id = r.id /\ b.name # r.name
         /\ \E i \in 1..Len(r.parents) :
              ~DictHas(tree.all_people, r.parents[i].id)

-----------------------------------------------------------------------------
Raised(backend) ==
    {i \in 1..Len(raised) : raised[i][1] = backend}

\* render_to_png has returned or raised.
RenderOver ==
    /\ attempts # << >>
    /\ pc \in {"done", "graphviz_done", "ImportError", "RecursionError",
               "RenderError"}

\* The outcome is the matplotlib backend's: its result, or the exception it
\* raised.
OutcomeOfMatplotlib ==
    IF Raised("matplotlib") = {}
    THEN pc = "done"
    ELSE /\ Cardinality(Raised("matplotlib")) = 1
         /\ raised[Len(raised)][1] = "matplotlib"
         /\ pc = raised[Len(raised)][2]

\* C17: render_to_png tries the backends in a fixed order.  With Graphviz
\* available it is tried first; when it raises, the matplotlib backend is
\* tried exactly once and its result or exception is the outcome.  With
\* Graphviz unavailable only the matplotlib backend is tried, and its
\* exception reaches the caller.  Graphviz is never tried after matplotlib,
\* and no backend is tried twice.
C17_BackendsInFixedOrder ==
    /\ attempts # << >> =>
         /\ attempts \in {<<"graphviz">>, <<"matplotlib">>,
                          <<"graphviz", "matplotlib">>}
         /\ attempts[1]
              = (IF GRAPHVIZ_AVAILABLE THEN "graphviz" ELSE "matplotlib")
         /\ Cardinality(Raised("graphviz")) <= 1
    /\ attempts = << >> => raised = << >>
    /\ RenderOver =>
         IF GRAPHVIZ_AVAILABLE
         THEN IF Raised("graphviz") = {}
              THEN attempts = <<"graphviz">> /\ pc = "graphviz_done"
              ELSE attempts = <<"graphviz", "matplotlib">> /\ OutcomeOfMatplotlib
         ELSE attempts = <<"matplotlib">> /\ OutcomeOfMatplotlib

\* The Graphviz backend raised and the matplotlib backend, tried after it,
\* drew the tree.
C17_Witness ==
    /\ pc = "done"
    /\ Raised("graphviz") # {}
    /\ attempts = <<"graphviz", "matplotlib">>

-----------------------------------------------------------------------------
IndexIn(p, lst) ==
    CHOOSE j \in 1..Len(lst) : lst[j] = p

\* C18: the levels of the map are laid out in ascending order, and a person
\* listed at more than one level has one coordinate, the one computed for the
\* highest level listing it: the y of that level and the x of its place in
\* that level's list.
C18_HighestLevelFixesPosition ==
    /\ \A i \in 1..(Len(generations) - 1) :
         generations[i].k < generations[i + 1].k
    /\ LaidOut =>
         \A p \in SeqToSet(GetAllPeople(tree)) :
           LET top == MaxOf(LevelsListing(p))
               lst == DictGet(generations, top)
           IN /\ Cardinality(EntriesFor(node_positions, people[p].id)) = 1
              /\ PositionOf(p).y
                   = LevelY(MaxOf(SeqToSet(DictKeys(generations))), top)
              /\ PositionOf(p).x = XPositions(Len(lst))[IndexIn(p, lst)]

\* The layout is computed for a tree in which a person is listed at two
\* levels of different sizes, at places with different x.
C18_Witness ==
    /\ LaidOut
    /\ \E p \in Refs : \E a \in LevelsListing(p) : \E b \in LevelsListing(p) :
         /\ a < b
         /\ XPositions(Len(DictGet(generations, a)))
                [IndexIn(p, DictGet(generations, a))]
              # XPositions(Len(DictGet(generations, b)))
                  [IndexIn(p, DictGet(generations, b))]

====
